---- MODULE Spec2Model ----
(***************************************************************************)
(* Model of majbdd.validation: validate_file, _row_to_dict and             *)
(* _build_row_model (src/src/majbdd/validation.py).                        *)
(*                                                                         *)
(* One call of validate_file is a behaviour: Init draws the arguments and  *)
(* the file, each action is one statement group of the function body.      *)
(* Texts are sequences of one-character strings; a cell of the file is     *)
(* named by an identifier whose characters are given by Text.              *)
(***************************************************************************)
EXTENDS Integers, Sequences, FiniteSets, TLC

\* ------------------------------------------------------------------ bounds
MaxRows == 2
MaxSample == 2

\* --------------------------------------------------------------- constants
\* _SHA256_RE = ^[a-fA-F0-9]{64}$
ShaLen == 64

HexChars ==
  {"0","1","2","3","4","5","6","7","8","9",
   "a","b","c","d","e","f","A","B","C","D","E","F"}

Whitespace == {" ", "\t"}

\* Python's None, for a text-valued slot.
None == "<None>"

\* ------------------------------------------------------------------- texts
\* The characters of each cell used in the files of the model.
Text(cell) ==
  CASE cell = "hex64"        -> [k \in 1..ShaLen |-> IF k % 2 = 0 THEN "A" ELSE "9"]
    [] cell = "hex63"        -> [k \in 1..(ShaLen - 1) |-> IF k % 2 = 0 THEN "A" ELSE "9"]
    [] cell = "email"        -> <<"a", "@", "b", ".", "c">>
    [] cell = "padded_email" -> <<" ", "a", "@", "b", ".", "c", " ">>
    [] cell = "at"           -> <<"@">>
    [] cell = "plain"        -> <<"z", "z">>
    [] cell = "blank"        -> <<" ", "\t">>
    [] cell = "empty"        -> <<>>

\* str.lower() on the extensions and rule names that occur.
Lower(s) ==
  CASE s = ".CSV"            -> ".csv"
    [] s = "SHA256"          -> "sha256"
    [] s = "Email_Or_Sha256" -> "email_or_sha256"
    [] OTHER                 -> s

\* str.strip(): drop leading and trailing whitespace.
RECURSIVE LStrip(_)
LStrip(s) ==
  IF s = <<>> THEN <<>>
  ELSE IF Head(s) \in Whitespace THEN LStrip(Tail(s)) ELSE s

RECURSIVE RStrip(_)
RStrip(s) ==
  IF s = <<>> THEN <<>>
  ELSE IF s[Len(s)] \in Whitespace THEN RStrip(SubSeq(s, 1, Len(s) - 1)) ELSE s

Strip(s) == RStrip(LStrip(s))

\* _SHA256_RE.fullmatch(s)
Sha256FullMatch(s) ==
  /\ Len(s) = ShaLen
  /\ \A k \in 1..Len(s) : s[k] \in HexChars

\* "@" in s
ContainsAt(s) == \E k \in 1..Len(s) : s[k] = "@"

\* EmailStr: one "@", a non-empty dot-atom before it, a dotted domain after it.
DotAtom(s) ==
  /\ s # <<>>
  /\ s[1] # "." /\ s[Len(s)] # "."
  /\ \A k \in 1..Len(s) : s[k] \notin Whitespace /\ s[k] # "@"
  /\ \A k \in 1..(Len(s) - 1) : ~(s[k] = "." /\ s[k + 1] = ".")

IsEmail(s) ==
  \E p \in 1..Len(s) :
    /\ s[p] = "@"
    /\ DotAtom(SubSeq(s, 1, p - 1))
    /\ DotAtom(SubSeq(s, p + 1, Len(s)))
    /\ \E k \in (p + 1)..Len(s) : s[k] = "."

\* A value of a row dict: None, or a text.
NoneVal == [none |-> TRUE, s |-> <<>>]
StrVal(s) == [none |-> FALSE, s |-> s]

\* ----------------------------------------------------------- configuration
\* yaml.safe_load(config_path): partner -> file key -> contract.  A key that
\* the YAML omits is absent from the record's domain.
config ==
  [p1 |->
    [default |-> [extension |-> ".csv", separator |-> ";",
                  columns |-> <<"a", "b">>,
                  types |-> [a |-> "SHA256", b |-> "email"]],
     mixed   |-> [extension |-> ".CSV", separator |-> ";",
                  columns |-> <<"a", "b", "c">>,
                  types |-> [a |-> "Email_Or_Sha256", c |-> "int"]],
     nosep   |-> [extension |-> ".csv",
                  columns |-> <<"a", "b">>,
                  types |-> [a |-> "sha256"]],
     nocols  |-> [extension |-> ".csv", separator |-> ";",
                  columns |-> <<>>]]]

\* The (partner, file_key) arguments of the calls.
Requests ==
  {<<"p1", "default">>, <<"p1", "mixed">>, <<"p1", "nosep">>,
   <<"p1", "nocols">>, <<"p1", "absent">>, <<"ghost", "default">>}

Suffixes == {".csv", ".CSV", ".txt"}

SampleSizes == (0 - 1)..MaxSample

\* First lines of the files: no line at all (<<>>), or one header.
Headers == {<<"a", "b">>, <<"b", "a">>, <<"a", "b", "c">>, <<"a">>}

DataRows ==
  {<<"hex64", "email">>,
   <<"hex63", "padded_email">>,
   <<"hex64", "at">>,
   <<"blank">>,
   <<"at", "plain", "plain">>,
   <<"plain", "empty", "hex63">>}

RECURSIVE SeqsUpTo(_, _)
SeqsUpTo(S, n) ==
  IF n = 0 THEN {<<>>}
  ELSE LET shorter == SeqsUpTo(S, n - 1)
       IN shorter \cup {Append(q, x) : q \in shorter, x \in S}

\* The lines csv.reader yields for a file: none, or a header and data rows.
Files ==
  {<<>>} \cup {<<h>> \o rows : h \in Headers, rows \in SeqsUpTo(DataRows, MaxRows)}

\* ------------------------------------------------------- contract fields
\* cfg.get("extension") or ""
CfgExtension(cfg) ==
  IF "extension" \in DOMAIN cfg THEN cfg.extension ELSE ""

\* cfg.get("separator")
CfgSeparator(cfg) ==
  IF "separator" \in DOMAIN cfg THEN cfg.separator ELSE None

\* cfg.get("columns") or []
CfgColumns(cfg) ==
  IF "columns" \in DOMAIN cfg THEN cfg.columns ELSE <<>>

\* cfg.get("types") or {}
CfgTypes(cfg) ==
  IF "types" \in DOMAIN cfg THEN cfg.types ELSE <<>>

\* file_path.suffix.lower() != expected_ext
ExtensionMismatch(suffix, cfg) ==
  Lower(suffix) # Lower(CfgExtension(cfg))

\* not separator
Falsy(text) == text \in {None, ""}

\* Faulty variant: the header compared as a set of names, order ignored.
HeaderDiffers_AsSets(hdr, expected_columns) ==
  {hdr[k] : k \in 1..Len(hdr)}
    # {expected_columns[k] : k \in 1..Len(expected_columns)}

\* header != expected_columns
HeaderDiffers(hdr, expected_columns) == hdr # expected_columns

\* Faulty variant: the sample window one row too long.
BeyondSample_OffByOne(idx, size) == idx > size + 1

\* i > sample_size
BeyondSample(idx, size) == idx > size

Min(x, y) == IF x <= y THEN x ELSE y

\* Faulty variant of Normalize: the stripped text kept even when empty.
Normalize_KeepEmpty(cell) == StrVal(Strip(Text(cell)))

\* ------------------------------------------------------------ _row_to_dict
\* row[: len(columns)] + [None] * max(0, len(columns) - len(row)), then a
\* strip of every text; an empty text becomes None.
Normalize(cell) ==
  LET val == Strip(Text(cell))
  IN IF val = <<>> THEN NoneVal ELSE StrVal(val)

RowToDict(columns, row) ==
  [col \in {columns[k] : k \in 1..Len(columns)} |->
     LET k == CHOOSE j \in 1..Len(columns) :
                /\ columns[j] = col
                /\ \A m \in (j + 1)..Len(columns) : columns[m] # col
     IN IF k <= Len(row) THEN Normalize(row[k]) ELSE NoneVal]

\* -------------------------------------------------------- _build_row_model
\* rule = (type_rules.get(col) or "string").lower()
RuleOf(type_rules, col) ==
  IF col \in DOMAIN type_rules /\ ~Falsy(type_rules[col])
  THEN Lower(type_rules[col]) ELSE "string"

\* fields[col] = (<annotation>, None), by rule.
Annotation(rule) ==
  CASE rule = "email"           -> "EmailStr | None"
    [] rule = "sha256"          -> "str | None"
    [] rule = "email_or_sha256" -> "str | EmailStr | None"
    [] OTHER                    -> "str | None"

\* validators[f"validate_{col}_{rule}"] = <field_validator(col) function>
ValidatorsOf(columns, type_rules) ==
  {[field |-> columns[k], fn |-> RuleOf(type_rules, columns[k])] :
     k \in {j \in 1..Len(columns) :
              RuleOf(type_rules, columns[j]) \in {"sha256", "email_or_sha256"}}}

\* _v_sha256(v)
V_sha256(v) == v.none \/ Sha256FullMatch(v.s)

\* _v_email_or_sha256(v)
V_email_or_sha256(v) == v.none \/ ContainsAt(v.s) \/ Sha256FullMatch(v.s)

RunValidator(fn, v) ==
  IF fn = "sha256" THEN V_sha256(v) ELSE V_email_or_sha256(v)

\* create_model("RowModel", **fields): the class is built, and its validation
\* schema compiled, from the fields and from the field validators found in the
\* class namespace at that moment.  Only fields are passed, so none is found.
CreateModel(fields) ==
  [fields |-> fields, decorators |-> {}, attrs |-> {}]

\* setattr(RowModel, name, fn), for every collected validator: a plain class
\* attribute; the compiled schema (fields, decorators) is not rebuilt.
InjectValidators(model, validators) ==
  [model EXCEPT !.attrs = validators]

BuildRowModel(columns, type_rules) ==
  LET fields == [col \in {columns[k] : k \in 1..Len(columns)} |->
                   Annotation(RuleOf(type_rules, col))]
  IN InjectValidators(CreateModel(fields), ValidatorsOf(columns, type_rules))

\* Whether a value conforms to a field's annotation.
AnnotationAccepts(annotation, v) ==
  CASE annotation = "EmailStr | None"       -> v.none \/ IsEmail(v.s)
    [] annotation = "str | None"            -> TRUE
    [] annotation = "str | EmailStr | None" -> TRUE

\* RowModel.model_validate(row_dict): the fields that fail, by annotation or by
\* a field validator of the compiled schema.  Empty when the row is accepted.
ModelValidate(model, row_dict) ==
  {col \in DOMAIN model.fields :
     \/ ~AnnotationAccepts(model.fields[col], row_dict[col])
     \/ \E d \in model.decorators :
          d.field = col /\ ~RunValidator(d.fn, row_dict[col])}

\* Faulty variant: leaving the block does not close the handle.
ExitWith_Leak(h) == h

\* The "with open(...)" block is left, normally or by an exception.
ExitWith(h) == "closed"

\* ------------------------------------------------------------------ state
VARIABLES
  partner,      \* argument
  file_key,     \* argument
  file_path,    \* argument: [suffix, lines], the path's suffix and the file's lines
  sample_size,  \* argument
  pc,           \* the statement validate_file is at; "done" / "raised" at its end
  RowModel,     \* the compiled row model
  handle,       \* the data file's handle: "unopened", "open", "closed"
  header,       \* the header read from the file
  reader,       \* number of lines the csv reader has yielded
  i,            \* the loop variable of the scan
  i_bound,      \* 'i' in locals()
  validated,    \* the row indices RowModel.model_validate was called for, in order
  error,        \* the exception raised: [kind, row, columns]
  result        \* the dict returned: [status, sample_validated_rows]

vars ==
  <<partner, file_key, file_path, sample_size, pc, RowModel, handle, header,
    reader, i, i_bound, validated, error, result>>

args == <<partner, file_key, file_path, sample_size>>

NoError == [kind |-> "none", row |-> 0, columns |-> {}]
NoResult == [status |-> "none", sample_validated_rows |-> 0]

Init ==
  /\ \E rq \in Requests : partner = rq[1] /\ file_key = rq[2]
  /\ file_path \in [suffix : Suffixes, lines : Files]
  /\ sample_size \in SampleSizes
  /\ pc = "resolve_partner"
  /\ RowModel = CreateModel(<<>>)
  /\ handle = "unopened"
  /\ header = <<>>
  /\ reader = 0
  /\ i = 0
  /\ i_bound = FALSE
  /\ validated = <<>>
  /\ error = NoError
  /\ result = NoResult

\* cfg = partner_cfg[file_key]
Cfg == config[partner][file_key]

\* raise ValidationError(...) (or an I/O error passing through)
Raise(kind, row, columns) ==
  /\ pc' = "raised"
  /\ error' = [kind |-> kind, row |-> row, columns |-> columns]

\* if partner not in config: raise
ResolvePartner ==
  /\ pc = "resolve_partner"
  /\ IF partner \notin DOMAIN config
     THEN Raise("UnknownPartner", 0, {})
     ELSE pc' = "resolve_file_key" /\ UNCHANGED error
  /\ UNCHANGED <<args, RowModel, handle, header, reader, i, i_bound, validated, result>>

\* if file_key not in partner_cfg: raise
ResolveFileKey ==
  /\ pc = "resolve_file_key"
  /\ IF file_key \notin DOMAIN config[partner]
     THEN Raise("UnknownFileKey", 0, {})
     ELSE pc' = "check_extension" /\ UNCHANGED error
  /\ UNCHANGED <<args, RowModel, handle, header, reader, i, i_bound, validated, result>>

\* Faulty variant of CheckExtension: the separator is checked first, so a
\* contract without separator is reported before the extension.
CheckExtension_SeparatorFirst ==
  /\ pc = "check_extension"
  /\ IF Falsy(CfgSeparator(Cfg))
     THEN Raise("NoSeparator", 0, {})
     ELSE IF ExtensionMismatch(file_path.suffix, Cfg)
          THEN Raise("Extension", 0, {})
          ELSE pc' = "check_contract" /\ UNCHANGED error
  /\ UNCHANGED <<args, RowModel, handle, header, reader, i, i_bound, validated, result>>

\* 2) Extension
CheckExtension ==
  /\ pc = "check_extension"
  /\ IF ExtensionMismatch(file_path.suffix, Cfg)
     THEN Raise("Extension", 0, {})
     ELSE pc' = "check_contract" /\ UNCHANGED error
  /\ UNCHANGED <<args, RowModel, handle, header, reader, i, i_bound, validated, result>>

\* if not separator: raise; if not expected_columns: raise
CheckContract ==
  /\ pc = "check_contract"
  /\ IF Falsy(CfgSeparator(Cfg))
     THEN Raise("NoSeparator", 0, {})
     ELSE IF CfgColumns(Cfg) = <<>>
          THEN Raise("NoColumns", 0, {})
          ELSE pc' = "build_model" /\ UNCHANGED error
  /\ UNCHANGED <<args, RowModel, handle, header, reader, i, i_bound, validated, result>>

\* RowModel = _build_row_model(expected_columns, type_rules)
BuildModel ==
  /\ pc = "build_model"
  /\ RowModel' = BuildRowModel(CfgColumns(Cfg), CfgTypes(Cfg))
  /\ pc' = "open"
  /\ UNCHANGED <<args, handle, header, reader, i, i_bound, validated, error, result>>

\* with open(file_path, ...) as f: reader = csv.reader(f, ...)
OpenFile ==
  /\ pc = "open"
  /\ handle' = "open"
  /\ pc' = "read_header"
  /\ UNCHANGED <<args, RowModel, header, reader, i, i_bound, validated, error, result>>

\* open() itself raises (no such file, no permission): no handle exists.
OpenFails ==
  /\ pc = "open"
  /\ Raise("IOError", 0, {})
  /\ UNCHANGED <<args, RowModel, handle, header, reader, i, i_bound, validated, result>>

\* header = next(reader); empty file; header != expected_columns
ReadHeader ==
  /\ pc = "read_header"
  /\ IF reader >= Len(file_path.lines)
     THEN /\ Raise("EmptyFile", 0, {})
          /\ handle' = ExitWith(handle)
          /\ UNCHANGED <<header, reader>>
     ELSE /\ header' = file_path.lines[reader + 1]
          /\ reader' = reader + 1
          /\ IF HeaderDiffers(header', CfgColumns(Cfg))
             THEN Raise("HeaderMismatch", 0, {}) /\ handle' = ExitWith(handle)
             ELSE pc' = "scan" /\ UNCHANGED <<error, handle>>
  /\ UNCHANGED <<args, RowModel, i, i_bound, validated, result>>

\* One turn of "for i, row in enumerate(reader, start=1)".
ScanRow ==
  /\ pc = "scan"
  /\ IF reader >= Len(file_path.lines)
     THEN \* the reader is exhausted: the loop and the with block end
          /\ pc' = "return"
          /\ handle' = ExitWith(handle)
          /\ UNCHANGED <<reader, i, i_bound, validated, error>>
     ELSE /\ reader' = reader + 1
          /\ i' = i + 1
          /\ i_bound' = TRUE
          /\ IF BeyondSample(i', sample_size)
             THEN \* break
                  /\ pc' = "return"
                  /\ handle' = ExitWith(handle)
                  /\ UNCHANGED <<validated, error>>
             ELSE LET row_dict == RowToDict(header, file_path.lines[reader + 1])
                      failing == ModelValidate(RowModel, row_dict)
                  IN /\ validated' = Append(validated, i')
                     /\ IF failing # {}
                        THEN Raise("RowType", i', failing) /\ handle' = ExitWith(handle)
                        ELSE UNCHANGED <<pc, error, handle>>
  /\ UNCHANGED <<args, RowModel, header, result>>

\* A read of the open file raises (I/O error, undecodable bytes).
ReadFails ==
  /\ pc \in {"read_header", "scan"}
  /\ handle = "open"
  /\ Raise("IOError", 0, {})
  /\ handle' = ExitWith(handle)
  /\ UNCHANGED <<args, RowModel, header, reader, i, i_bound, validated, result>>

\* Faulty variant: the loop index reported without the min().
SampleValidatedRows_NoMin(size, idx, bound) == IF bound THEN idx ELSE 0

\* "sample_validated_rows": min(sample_size, i if 'i' in locals() else 0)
SampleValidatedRows(size, idx, bound) ==
  Min(size, IF bound THEN idx ELSE 0)

\* return {...}
Return ==
  /\ pc = "return"
  /\ result' = [status |-> "OK",
                sample_validated_rows |-> SampleValidatedRows(sample_size, i, i_bound)]
  /\ pc' = "done"
  /\ UNCHANGED <<args, RowModel, handle, header, reader, i, i_bound, validated, error>>

Next ==
  \/ ResolvePartner
  \/ ResolveFileKey
  \/ CheckExtension
  \/ CheckContract
  \/ BuildModel
  \/ OpenFile
  \/ OpenFails
  \/ ReadHeader
  \/ ScanRow
  \/ ReadFails
  \/ Return

Spec == Init /\ [][Next]_vars

\* ------------------------------------------------ vocabulary of the claims
Terminal == pc \in {"done", "raised"}

Lines == file_path.lines

PartnerUnknown == partner \notin DOMAIN config

FileKeyUnknown == ~PartnerUnknown /\ file_key \notin DOMAIN config[partner]

ContractResolved == ~PartnerUnknown /\ ~FileKeyUnknown

SeparatorMissing ==
  ContractResolved /\ ("separator" \notin DOMAIN Cfg \/ Cfg.separator = "")

ColumnsMissing ==
  ContractResolved /\ ("columns" \notin DOMAIN Cfg \/ Len(Cfg.columns) = 0)

FormatViolated ==
  /\ ContractResolved
  /\ ~(file_path.suffix = Cfg.extension
        \/ <<file_path.suffix, Cfg.extension>> \in {<<".CSV", ".csv">>, <<".csv", ".CSV">>})

\* The error of the first violated check among those made before the file is
\* opened, in the order of the function body; "later" when all of them pass.
PreOpenKind ==
  IF PartnerUnknown THEN "UnknownPartner"
  ELSE IF FileKeyUnknown THEN "UnknownFileKey"
  ELSE IF FormatViolated THEN "Extension"
  ELSE IF SeparatorMissing THEN "NoSeparator"
  ELSE IF ColumnsMissing THEN "NoColumns"
  ELSE "later"

SameSequence(x, y) ==
  Len(x) = Len(y) /\ \A k \in 1..Len(x) : x[k] = y[k]

HeaderViolated ==
  Lines = <<>> \/ ~SameSequence(Lines[1], Cfg.columns)

\* Every check before the row scan passes.
ScanReached == PreOpenKind = "later" /\ ~HeaderViolated

NumDataRows == Len(Lines) - 1

\* Indices of the data rows inside the sample window.
Sampled == {r \in 1..NumDataRows : r <= sample_size}

\* The cell of data row r under column number k, stripped; <<>> if absent.
CellText(r, k) ==
  IF k <= Len(Lines[r + 1]) THEN Strip(Text(Lines[r + 1][k])) ELSE <<>>

ColumnIndex(col) == CHOOSE k \in 1..Len(Cfg.columns) : Cfg.columns[k] = col

\* The rule table: what each rule accepts for a non-null text.
RuleAccepts(rule, s) ==
  CASE rule = "email"           -> IsEmail(s)
    [] rule = "sha256"          -> Len(s) = ShaLen /\ \A k \in 1..Len(s) : s[k] \in HexChars
    [] rule = "email_or_sha256" ->
         \/ \E k \in 1..Len(s) : s[k] = "@"
         \/ Len(s) = ShaLen /\ \A k \in 1..Len(s) : s[k] \in HexChars
    [] OTHER                    -> TRUE

\* Columns of data row r whose non-null cell breaks its rule.
RuleViolations(r) ==
  {col \in {Cfg.columns[k] : k \in 1..Len(Cfg.columns)} :
     LET s == CellText(r, ColumnIndex(col))
     IN s # <<>> /\ ~RuleAccepts(RuleOf(CfgTypes(Cfg), col), s)}

\* Columns of data row r that the compiled row model rejects.
SchemaRejects(r) ==
  ModelValidate(BuildRowModel(Cfg.columns, CfgTypes(Cfg)),
                RowToDict(Cfg.columns, Lines[r + 1]))

\* ------------------------------------------------------------------ claims

\* C1 (as stated): the error raised is that of the earliest violated stage in
\* the order config resolution (unknown partner, unknown file key, separator
\* or columns missing) -> format check -> header check -> row scan.
C1_ConfigBeforeFormat ==
  (Terminal /\ error.kind # "IOError") =>
    LET config_violated ==
          PartnerUnknown \/ FileKeyUnknown \/ SeparatorMissing \/ ColumnsMissing
    IN /\ config_violated =>
            error.kind \in {"UnknownPartner", "UnknownFileKey", "NoSeparator", "NoColumns"}
       /\ (~config_violated /\ FormatViolated) => error.kind = "Extension"
       /\ (~config_violated /\ ~FormatViolated /\ HeaderViolated) =>
            error.kind \in {"EmptyFile", "HeaderMismatch"}

\* C1 (amended): the error raised is that of the earliest violated check in
\* the order unknown partner -> unknown file key -> extension -> separator
\* missing -> columns missing -> empty file / header mismatch -> row scan.
C1_EarliestInCodeOrder ==
  Terminal =>
    IF PreOpenKind # "later"
    THEN error.kind = PreOpenKind
    ELSE \/ error.kind = "IOError"
         \/ IF Lines = <<>> THEN error.kind = "EmptyFile"
            ELSE IF HeaderViolated THEN error.kind = "HeaderMismatch"
            ELSE error.kind \in {"none", "RowType"}

\* C1 witness: two stages violated at once (no separator in the contract and a
\* mismatching extension), and the call has raised.
C1_Witness ==
  /\ pc = "raised"
  /\ SeparatorMissing /\ FormatViolated
  /\ error.kind = "Extension"

\* C2: the type check is applied only to data rows of index <= sample_size; a
\* row beyond the sample never causes a failure, and a file whose sampled rows
\* are all accepted succeeds whatever the later rows hold.
C2_SamplingBound ==
  /\ \A k \in 1..Len(validated) : validated[k] >= 1 /\ validated[k] <= sample_size
  /\ error.kind = "RowType" => error.row <= sample_size
  /\ (Terminal /\ ScanReached /\ error.kind # "IOError"
        /\ \A r \in Sampled : SchemaRejects(r) = {})
       => (pc = "done" /\ result.status = "OK")

\* C2 witness: a successful call on a file that holds, beyond the sample, a row
\* the row model rejects.
C2_Witness ==
  /\ pc = "done"
  /\ ScanReached
  /\ sample_size >= 1
  /\ \E r \in 1..NumDataRows : r > sample_size /\ SchemaRejects(r) # {}

\* C3: with a: sha256 and b: email, sampled rows with a 64-hex a and a valid
\* email b pass, and a sampled row whose non-null a is not 64 hexadecimal
\* characters makes the call fail with a row-type error citing that row and a.
C3_Sha256Enforced ==
  (Terminal /\ ScanReached /\ error.kind # "IOError"
     /\ RuleOf(CfgTypes(Cfg), "a") = "sha256"
     /\ RuleOf(CfgTypes(Cfg), "b") = "email") =>
    /\ (\A r \in Sampled : RuleViolations(r) = {}) => pc = "done"
    /\ \A r \in Sampled :
         ("a" \in RuleViolations(r)
            /\ \A q \in 1..(r - 1) : RuleViolations(q) = {})
           => (pc = "raised" /\ error.kind = "RowType"
                 /\ error.row = r /\ "a" \in error.columns)

\* C4: a column typed email_or_sha256 accepts a non-null value iff it contains
\* "@" or is 64 hexadecimal characters; a sampled row with a value of neither
\* kind makes the call fail with a row-type error.
C4_EmailOrSha256Enforced ==
  (Terminal /\ ScanReached /\ error.kind # "IOError"
     /\ RuleOf(CfgTypes(Cfg), "a") = "email_or_sha256") =>
    /\ (\E r \in Sampled : "a" \in RuleViolations(r))
         => (pc = "raised" /\ error.kind = "RowType")
    /\ \A r \in Sampled :
         ("a" \in SchemaRejects(r)) <=> ("a" \in RuleViolations(r))

\* C5: once config resolution and the extension check have passed on a
\* non-empty file, the header check passes iff the first row equals the
\* contract's columns in count, names and order; any other header raises the
\* header-mismatch error and no data row is type-checked.
C5_HeaderExact ==
  /\ (pc \in {"scan", "return", "done"} \/ error.kind = "RowType")
       => SameSequence(Lines[1], Cfg.columns)
  /\ error.kind = "HeaderMismatch"
       => (~SameSequence(Lines[1], Cfg.columns) /\ validated = <<>>)
  /\ (Terminal /\ PreOpenKind = "later" /\ Lines # <<>> /\ error.kind # "IOError")
       => (error.kind = "HeaderMismatch" <=> ~SameSequence(Lines[1], Cfg.columns))

\* C5 witness: a header that is a permutation of the contract's columns has
\* been refused.
C5_Witness ==
  /\ pc = "raised" /\ error.kind = "HeaderMismatch"
  /\ Lines[1] = <<"b", "a">> /\ Cfg.columns = <<"a", "b">>
  /\ Len(Lines) > 1

\* C6: on success sample_validated_rows = min(sample_size, number of data
\* rows); 0 for a header-only file, sample_size for a longer file.
C6_SampleCount ==
  pc = "done" =>
    /\ result.status = "OK"
    /\ result.sample_validated_rows =
         (IF sample_size <= NumDataRows THEN sample_size ELSE NumDataRows)

\* C6 witness: a successful call on a file with more data rows than
\* sample_size, reporting sample_size.
C6_Witness ==
  /\ pc = "done"
  /\ sample_size >= 1 /\ NumDataRows > sample_size
  /\ result.sample_validated_rows = sample_size

\* C7: an empty, whitespace-only or missing cell is normalized to null by
\* _row_to_dict, null is accepted under every rule, and such a cell is never
\* among the columns of a row-type error.
C7_NullAccepted ==
  /\ ScanReached =>
       \A r \in 1..NumDataRows : \A k \in 1..Len(Cfg.columns) :
         LET row == Lines[r + 1]
             blank == k > Len(row)
                        \/ \A j \in 1..Len(Text(row[k])) : Text(row[k])[j] \in Whitespace
         IN /\ blank => RowToDict(Cfg.columns, row)[Cfg.columns[k]] = NoneVal
            /\ blank => Cfg.columns[k] \notin SchemaRejects(r)
  /\ error.kind = "RowType" =>
       \A col \in error.columns :
         LET row == Lines[error.row + 1]
             k == ColumnIndex(col)
         IN k <= Len(row) /\ \E j \in 1..Len(Text(row[k])) : Text(row[k])[j] \notin Whitespace
  /\ \A rule \in {"string", "email", "sha256", "email_or_sha256", "int"} :
       /\ AnnotationAccepts(Annotation(rule), NoneVal)
       /\ V_sha256(NoneVal) /\ V_email_or_sha256(NoneVal)

\* C7 witness: a row made of one whitespace-only cell (its other cell missing)
\* has been type-checked under sha256 / email rules and the call succeeded.
C7_Witness ==
  /\ pc = "done"
  /\ RuleOf(CfgTypes(Cfg), "a") = "sha256" /\ RuleOf(CfgTypes(Cfg), "b") = "email"
  /\ \E k \in 1..Len(validated) : Lines[validated[k] + 1] = <<"blank">>

\* C8: the data file's handle is closed whenever the call has returned or
\* raised, and it is never opened before config resolution, the extension check
\* and the contract checks have passed.
C8_HandleReleased ==
  /\ (Terminal \/ pc = "return") => handle # "open"
  /\ handle # "unopened" => PreOpenKind = "later"
  /\ handle = "open" => pc \in {"read_header", "scan"}

\* C8 witness: a read error struck while the file was open, and the handle is
\* closed.
C8_Witness ==
  /\ pc = "raised" /\ error.kind = "IOError"
  /\ handle = "closed"
  /\ reader >= 1

\* C9: when some sampled row violates a type rule, the call raises a row-type
\* error for the smallest violating index, the rows before it were checked and
\* accepted, none after it was checked, and no success result is returned.
C9_FailFastOnRuleViolation ==
  (Terminal /\ ScanReached /\ error.kind # "IOError") =>
    LET violating == {r \in Sampled : RuleViolations(r) # {}}
    IN violating # {} =>
         LET first == CHOOSE r \in violating : \A q \in violating : r <= q
         IN /\ pc = "raised" /\ error.kind = "RowType"
            /\ error.row = first
            /\ validated = [k \in 1..first |-> k]
            /\ result.status # "OK"

\* C10: in every successful call, for every integer sample_size,
\* sample_validated_rows is non-negative and equals the number of rows the row
\* model was applied to.
C10_CountIsRowsChecked ==
  pc = "done" =>
    /\ result.sample_validated_rows >= 0
    /\ result.sample_validated_rows = Len(validated)

====
